---- MODULE Spec2Model ----
(***************************************************************************)
(* Model of the SIREN micro-services repository:                           *)
(*   - import_csv_to_mysql.py : the batched CSV -> MySQL import run        *)
(*   - services/api-spark/main.py, services/api-mysql/main.py : the        *)
(*     pagination metadata and the Hydra navigation links, and the token   *)
(*     check in front of the handlers (services/api-mysql/auth.py)         *)
(*   - two import runs at work on the same table                           *)
(*   - a list request served while import runs commit rows                 *)
(***************************************************************************)
EXTENDS Integers, Sequences, FiniteSets, Bags, TLC

VARIABLES
    \* ---- target store (MySQL table unite_legale) ----
    table,          \* committed rows, a bag of rows
    pending,        \* rows inserted by the open transaction of the run
    connAlive,      \* the run's connection is still usable
    \* ---- import_csv: arguments ----
    source,         \* the records of the CSV file, in file order
    batch_size,     \* --batch-size
    truncate,       \* --truncate
    \* ---- import_csv: locals and position ----
    pc,
    pos,            \* number of records the reader has delivered
    batch,
    total_rows,
    inserted_rows,
    skipped_rows,
    \* ---- observation of the run ----
    calls,          \* the insert_batch invocations of this run, in order
    lastLoad,       \* the last batch the store accepted and still retains
    summary,        \* number of times the final summary was printed
    commits,        \* number of successful commits of inserts in this run
    table0,         \* the table when the run started
    rerun,          \* FALSE in the first run, TRUE in the re-run
    prev,           \* how the first run ended
    cleared,        \* the TRUNCATE of this run was executed and committed
    cause,          \* what ended the run: "none" while it runs or when it succeeds
    \* ---- Row Mapper, taken alone ----
    mapPc, mapIn, mapOut,
    \* ---- pagination, taken alone ----
    pgPc, pgPage, pgLimit, pgTotal, pgOut,
    \* ---- one HTTP request and its token check ----
    rqPc,
    rqRoute,        \* the route the request is for
    rqHeader,       \* its Authorization header
    rqToken,        \* "none": no check was run, "ok", "refused"
    rqStatus,       \* the status of the response, 0 before there is one
    \* ---- two import runs on one table ----
    sharedTable,    \* committed rows
    sharedTable0,   \* the table before the two runs
    bothBatchSize,  \* --batch-size of both runs
    runSource, runPc, runPos, runBatch, runInserted, runSkipped,
    runPending,     \* the rows of each run's open transaction
    runStmt,        \* the rows the statement in execution has still to insert
    runAdded,       \* the rows the statement in execution has inserted
    runFailed,      \* a statement of the run failed
    \* ---- one list request while import runs commit ----
    rdPc,
    rdHandler,      \* the handler that serves the request
    rdIsolation,    \* the transaction isolation level of the MySQL server
    rdPage, rdLimit,
    rdStore,        \* number of committed matching rows now
    rdSnapshot,     \* number of rows in the read view of the session's transaction
    rdTotal,        \* the result of the count query
    rdGrew,         \* an import committed rows after the count query
    rdOut           \* the response

storeVars == <<table, pending, connAlive>>
argVars   == <<source, batch_size, truncate>>
runVars   == <<pc, pos, batch, total_rows, inserted_rows, skipped_rows>>
obsVars   == <<calls, lastLoad, summary, commits, table0, rerun, prev>>
endVars   == <<cleared, cause>>
importVars == <<storeVars, argVars, runVars, obsVars, endVars>>
mapVars   == <<mapPc, mapIn, mapOut>>
pageVars  == <<pgPc, pgPage, pgLimit, pgTotal, pgOut>>
authVars  == <<rqPc, rqRoute, rqHeader, rqToken, rqStatus>>
twoVars   == <<sharedTable, sharedTable0, bothBatchSize, runSource, runPc, runPos,
               runBatch, runInserted, runSkipped, runPending, runStmt, runAdded,
               runFailed>>
readVars  == <<rdPc, rdHandler, rdIsolation, rdPage, rdLimit, rdStore, rdSnapshot,
               rdTotal, rdGrew, rdOut>>
vars      == <<importVars, mapVars, pageVars, authVars, twoVars, readVars>>

(***************************************************************************)
(* Bounds                                                                  *)
(***************************************************************************)
MaxRows  == 3       \* records in the source file
MaxBatch == 2       \* largest --batch-size tried
MaxTotal == 45      \* largest total item count
MaxLimit == 20      \* largest page size tried
MaxPage  == 5       \* largest page number tried
MaxTwoRows == 3     \* records in each source file of two concurrent runs
MaxStore == 5       \* most rows the store holds while a request is served

(***************************************************************************)
(* Values.  Python's None is the empty tuple, a string s is <<s>>.          *)
(***************************************************************************)
None == <<>>
Str(s) == <<s>>

\* COLUMN_MAPPING, in dict order: <<csv column, table column>>
COLUMN_MAPPING ==
    << <<"siren", "siren">>,
       <<"statutDiffusionUniteLegale", "statut_diffusion_unite_legale">>,
       <<"unitePurgeeUniteLegale", "unite_purgee_unite_legale">>,
       <<"dateCreationUniteLegale", "date_creation_unite_legale">>,
       <<"sigleUniteLegale", "sigle_unite_legale">>,
       <<"sexeUniteLegale", "sexe_unite_legale">>,
       <<"prenom1UniteLegale", "prenom_1_unite_legale">>,
       <<"prenom2UniteLegale", "prenom_2_unite_legale">>,
       <<"prenom3UniteLegale", "prenom_3_unite_legale">>,
       <<"prenom4UniteLegale", "prenom_4_unite_legale">>,
       <<"prenomUsuelUniteLegale", "prenom_usuel_unite_legale">>,
       <<"pseudonymeUniteLegale", "pseudonyme_unite_legale">>,
       <<"identifiantAssociationUniteLegale", "identifiant_association_unite_legale">>,
       <<"trancheEffectifsUniteLegale", "tranche_effectifs_unite_legale">>,
       <<"anneeEffectifsUniteLegale", "annee_effectifs_unite_legale">>,
       <<"dateDernierTraitementUniteLegale", "date_dernier_traitement_unite_legale">>,
       <<"nombrePeriodesUniteLegale", "nombre_periodes_unite_legale">>,
       <<"categorieEntreprise", "categorie_entreprise">>,
       <<"anneeCategorieEntreprise", "annee_categorie_entreprise">>,
       <<"dateDebut", "date_debut">>,
       <<"etatAdministratifUniteLegale", "etat_administratif_unite_legale">>,
       <<"nomUniteLegale", "nom_unite_legale">>,
       <<"nomUsageUniteLegale", "nom_usage_unite_legale">>,
       <<"denominationUniteLegale", "denomination_unite_legale">>,
       <<"denominationUsuelle1UniteLegale", "denomination_usuelle_1_unite_legale">>,
       <<"denominationUsuelle2UniteLegale", "denomination_usuelle_2_unite_legale">>,
       <<"denominationUsuelle3UniteLegale", "denomination_usuelle_3_unite_legale">>,
       <<"categorieJuridiqueUniteLegale", "categorie_juridique_unite_legale">>,
       <<"activitePrincipaleUniteLegale", "activite_principale_unite_legale">>,
       <<"nomenclatureActivitePrincipaleUniteLegale", "nomenclature_activite_principale_unite_legale">>,
       <<"nicSiegeUniteLegale", "nic_siege_unite_legale">>,
       <<"economieSocialeSolidaireUniteLegale", "economie_sociale_solidaire_unite_legale">>,
       <<"societeMissionUniteLegale", "societe_mission_unite_legale">>,
       <<"caractereEmployeurUniteLegale", "caractere_employeur_unite_legale">> >>

CsvColumns == {COLUMN_MAPPING[i][1] : i \in DOMAIN COLUMN_MAPPING}
DbColumns  == {COLUMN_MAPPING[i][2] : i \in DOMAIN COLUMN_MAPPING}

\* row.get(csv_col, None)
RowGet(row, csv_col) == IF csv_col \in DOMAIN row THEN row[csv_col] ELSE None

\* the value stored for one column; MapValueKeepEmpty is the mapper without
\* the conversion of empty strings
MapValueKeepEmpty(value) == value
MapValue(value) == IF value = Str("") \/ value = None THEN None ELSE value

\* MapRowSparse is a mapper that sets a column only when the record has the field
MapRowSparse(row) ==
    [db_col \in {COLUMN_MAPPING[i][2] :
                    i \in {j \in DOMAIN COLUMN_MAPPING : COLUMN_MAPPING[j][1] \in DOMAIN row}} |->
        LET i == CHOOSE j \in DOMAIN COLUMN_MAPPING : COLUMN_MAPPING[j][2] = db_col
        IN  MapValue(RowGet(row, COLUMN_MAPPING[i][1]))]

\* mapped_row after the loop over COLUMN_MAPPING.items(): a later entry for the
\* same table column overwrites an earlier one, as dict assignment does
MapRow(row) ==
    [db_col \in DbColumns |->
        LET last == CHOOSE i \in DOMAIN COLUMN_MAPPING :
                        /\ COLUMN_MAPPING[i][2] = db_col
                        /\ \A j \in DOMAIN COLUMN_MAPPING :
                               COLUMN_MAPPING[j][2] = db_col => j <= i
        IN  MapValue(RowGet(row, COLUMN_MAPPING[last][1]))]

(***************************************************************************)
(* The Row Mapper taken alone: one source record in, one mapped record out *)
(***************************************************************************)
\* csv.DictReader delivers, per field of the header, a string, or None for a
\* short line; a record may lack mapped fields and may carry unmapped ones
MapFields == {"siren", "sigleUniteLegale", "champInconnu"}
MapValues == {None, Str(""), Str("0"), Str(" x ")}
MapInputs == UNION {[F -> MapValues] : F \in SUBSET MapFields}

InitIdleMap == mapPc = "idle" /\ mapIn = None /\ mapOut = None

MapOne ==
    /\ mapPc = "in"
    /\ mapOut' = MapRow(mapIn)
    /\ mapPc' = "out"
    /\ UNCHANGED <<mapIn, importVars, pageVars, authVars, twoVars, readVars>>

(***************************************************************************)
(* Pagination metadata and Hydra links                                     *)
(***************************************************************************)
Min(a, b) == IF a < b THEN a ELSE b

\* math.ceil(total / limit); FloorDiv is the integer division `//` in its place
FloorDiv(total, limit) == total \div limit
CeilDiv(total, limit) ==
    IF total % limit = 0 THEN total \div limit ELSE (total \div limit) + 1

\* math.ceil(total / limit) if total > 0 else 1; TotalPagesOfNone is the
\* rule without its `else 1`
TotalPagesOfNone(total, limit) == CeilDiv(total, limit)
TotalPages(total, limit) == IF total > 0 THEN CeilDiv(total, limit) ELSE 1

\* A URL is the sequence of its pieces: the delimiters "?", "&", "=" and the
\* text between them.  f"{base_url}?page={page}&limit={limit}"
PageUrl(base_url, page, limit) ==
    base_url \o <<"?", "page", "=", ToString(page), "&", "limit", "=", ToString(limit)>>

\* create_pagination of api-spark: the dict it returns
SparkViewKeys(page, total_pages) ==
    {"@id", "@type"}
        \cup (IF page > 1 THEN {"first", "previous"} ELSE {})
        \cup (IF page < total_pages THEN {"next", "last"} ELSE {})

SparkView(base_url, page, limit, total_pages) ==
    [k \in SparkViewKeys(page, total_pages) |->
        CASE k = "@id"      -> PageUrl(base_url, page, limit)
          [] k = "@type"    -> <<"hydra:PartialCollectionView">>
          [] k = "first"    -> PageUrl(base_url, 1, limit)
          [] k = "previous" -> PageUrl(base_url, page - 1, limit)
          [] k = "next"     -> PageUrl(base_url, page + 1, limit)
          [] k = "last"     -> PageUrl(base_url, total_pages, limit)]

create_pagination(page, limit, total, base_url) ==
    LET total_pages == TotalPages(total, limit)
        keys == {"page", "limit", "totalItems", "total_pages", "has_next", "has_prev"}
                    \cup (IF base_url # <<>> THEN {"view"} ELSE {})
    IN  [k \in keys |->
            CASE k = "page"        -> page
              [] k = "limit"       -> limit
              [] k = "totalItems"  -> total
              [] k = "total_pages" -> total_pages
              [] k = "has_next"    -> page < total_pages
              [] k = "has_prev"    -> page > 1
              [] k = "view"        -> SparkView(base_url, page, limit, total_pages)]

\* create_hydra_view of api-mysql: a HydraView whose unset links are None
create_hydra_view(base_url, page, limit, total_pages) ==
    IF total_pages <= 0 THEN None
    ELSE [id       |-> PageUrl(base_url, page, limit),
          type     |-> <<"hydra:PartialCollectionView">>,
          first    |-> IF page > 1 THEN PageUrl(base_url, 1, limit) ELSE None,
          previous |-> IF page > 1 THEN PageUrl(base_url, page - 1, limit) ELSE None,
          next     |-> IF page < total_pages THEN PageUrl(base_url, page + 1, limit) ELSE None,
          last     |-> IF page < total_pages THEN PageUrl(base_url, total_pages, limit) ELSE None]

\* schemas.PaginationMeta as both api-mysql list endpoints build it
PaginationMeta(page, limit, total, view_base) ==
    LET total_pages == TotalPages(total, limit)
    IN  [page        |-> page,
         limit       |-> limit,
         totalItems  |-> total,
         total_pages |-> total_pages,
         has_next    |-> page < total_pages,
         has_prev    |-> page > 1,
         view        |-> create_hydra_view(view_base, page, limit, total_pages)]

Max(a, b) == IF a > b THEN a ELSE b

\* query.offset(offset).limit(limit).all() over the matching rows;
\* OffsetIgnored is the query without its .offset(offset), OffsetLimitOneMore
\* the query with one row too many
OffsetIgnored(rows, offset, limit) == SubSeq(rows, 1, Min(limit, Len(rows)))
OffsetLimitOneMore(rows, offset, limit) ==
    SubSeq(rows, offset + 1, Min(offset + limit + 1, Len(rows)))
OffsetLimit(rows, offset, limit) ==
    SubSeq(rows, offset + 1, Min(offset + limit, Len(rows)))
\* df.limit(limit).offset(offset).collect(): the limit is applied first
LimitOffset(rows, offset, limit) ==
    SubSeq(SubSeq(rows, 1, Min(limit, Len(rows))), offset + 1, Min(limit, Len(rows)))

\* the rows matching the request in an unchanging store, in result order
StoreRows(total) == [i \in 1..total |-> i]

SparkBase     == <<"http://api/stats/activites/count">>
ActiviteBase  == <<"http://api/entreprises/activite/62.01Z">>
SearchBase    == <<"http://api/entreprises/search">>
SearchNom     == "dupont"

InitIdlePage ==
    pgPc = "idle" /\ pgPage = 1 /\ pgLimit = 1 /\ pgTotal = 0 /\ pgOut = None

\* count_by_activity (api-spark)
count_by_activity ==
    /\ pgPc = "request"
    /\ LET df == StoreRows(pgTotal)
           total == Len(df)
           offset == (pgPage - 1) * pgLimit
           items == LimitOffset(df, offset, pgLimit)
       IN  pgOut' = [numberOfItems   |-> Len(items),
                     itemListElement |-> items,
                     totalItems      |-> total,
                     pagination      |-> create_pagination(pgPage, pgLimit, total, SparkBase)]
    /\ pgPc' = "spark"
    /\ UNCHANGED <<pgPage, pgLimit, pgTotal, importVars, mapVars, authVars, twoVars, readVars>>

\* get_entreprises_by_activite (api-mysql)
get_entreprises_by_activite ==
    /\ pgPc = "request"
    /\ LET rows == StoreRows(pgTotal)
           offset == (pgPage - 1) * pgLimit
           total == Len(rows)
           entreprises == OffsetLimit(rows, offset, pgLimit)
       IN  pgOut' = [numberOfItems   |-> Len(entreprises),
                     totalItems      |-> total,
                     itemListElement |-> entreprises,
                     pagination      |-> PaginationMeta(pgPage, pgLimit, total, ActiviteBase)]
    /\ pgPc' = "activite"
    /\ UNCHANGED <<pgPage, pgLimit, pgTotal, importVars, mapVars, authVars, twoVars, readVars>>

\* search_entreprises_by_name (api-mysql)
search_entreprises_by_name ==
    /\ pgPc = "request"
    /\ LET rows == StoreRows(pgTotal)
           offset == (pgPage - 1) * pgLimit
           total == Len(rows)
           entreprises == OffsetLimit(rows, offset, pgLimit)
           base_url == SearchBase
       IN  pgOut' = [numberOfItems   |-> Len(entreprises),
                     totalItems      |-> total,
                     itemListElement |-> entreprises,
                     pagination      |-> PaginationMeta(pgPage, pgLimit, total,
                                             base_url \o <<"?", "nom", "=", SearchNom>>)]
    /\ pgPc' = "search"
    /\ UNCHANGED <<pgPage, pgLimit, pgTotal, importVars, mapVars, authVars, twoVars, readVars>>


(***************************************************************************)
(* The target store: table unite_legale, primary key siren                 *)
(***************************************************************************)
KeyOf(row) == row["siren"]
BagKeys(bag) == {KeyOf(r) : r \in BagToSet(bag)}

\* INSERT IGNORE of one row into what the transaction sees: the row is skipped
\* when its key is there; IgnoreNone is a table without the unique key
IgnoreNone(view, row) == FALSE
IgnoreDuplicate(view, row) == KeyOf(row) \in BagKeys(view)

\* INSERT IGNORE INTO unite_legale (...) VALUES (...), row after row:
\* the rows the statement adds, a row whose key is already there being skipped
RECURSIVE InsertIgnore(_, _)
InsertIgnore(view, rows) ==
    IF rows = <<>> THEN EmptyBag
    ELSE IF IgnoreDuplicate(view, Head(rows))
         THEN InsertIgnore(view, Tail(rows))
         ELSE SetToBag({Head(rows)})
                  (+) InsertIgnore(view (+) SetToBag({Head(rows)}), Tail(rows))

\* what the server tells the client about one multi-row statement
Outcomes == {"ok", "rejected", "lost"}

(***************************************************************************)
(* insert_batch                                                            *)
(***************************************************************************)
\* values = [tuple(row[col] for col in columns) for row in batch], with
\* columns = list(batch[0].keys())
StatementRows(rows) ==
    [i \in DOMAIN rows |-> [col \in DOMAIN rows[1] |-> rows[i][col]]]

\* cursor.rowcount if cursor.rowcount > 0 else 0; RowCountTwice is a server
\* that reports two affected rows per inserted row
RowCountTwice(added, rows) == 2 * BagCardinality(added)
RowCount(added, rows) ==
    IF BagCardinality(added) > 0 THEN BagCardinality(added) ELSE 0

\* insert_batch(connection, rows) when the server answers `outcome`:
\* the rows added to the transaction and the value returned
insert_batch(rows, outcome) ==
    IF rows = <<>> THEN [added |-> EmptyBag, result |-> 0]
    ELSE IF connAlive /\ outcome = "ok"
         THEN LET added == InsertIgnore(table (+) pending, StatementRows(rows))
              IN  [added |-> added, result |-> RowCount(added, rows)]
         \* except Exception: print, return 0
         ELSE [added |-> EmptyBag, result |-> 0]

(***************************************************************************)
(* import_csv                                                              *)
(***************************************************************************)
Keys == {"1", "2"}
\* the records of the source file, and the rows already in the table
SourceRecord(k) == [siren |-> Str(k), denominationUniteLegale |-> Str("NEW")]
OldRow(k) == MapRow([siren |-> Str(k), denominationUniteLegale |-> Str("OLD")])
Sources == UNION {[1..n -> {SourceRecord(k) : k \in Keys}] : n \in 0..MaxRows}

Terminal == {"committed", "rolledback", "exited"}
NoLoad == <<>>
NoPrev == [outcome |-> "none", clean |-> TRUE, truncate |-> FALSE, inserted |-> 0]

InitIdleImport ==
    /\ table = EmptyBag /\ pending = EmptyBag /\ connAlive = FALSE
    /\ source = <<>> /\ batch_size = 1 /\ truncate = FALSE
    /\ pc = "idle" /\ pos = 0 /\ batch = <<>>
    /\ total_rows = 0 /\ inserted_rows = 0 /\ skipped_rows = 0
    /\ calls = <<>> /\ lastLoad = NoLoad /\ summary = 0 /\ commits = 0
    /\ table0 = EmptyBag /\ rerun = FALSE /\ prev = NoPrev
    /\ cleared = FALSE /\ cause = "none"

InitImport ==
    /\ table \in {SetToBag({OldRow(k) : k \in K}) : K \in SUBSET Keys}
    /\ pending = EmptyBag /\ connAlive = FALSE
    /\ source \in Sources
    /\ batch_size \in 0..MaxBatch
    /\ truncate \in BOOLEAN
    /\ pc = "start" /\ pos = 0 /\ batch = <<>>
    /\ total_rows = 0 /\ inserted_rows = 0 /\ skipped_rows = 0
    /\ calls = <<>> /\ lastLoad = NoLoad /\ summary = 0 /\ commits = 0
    /\ table0 = table /\ rerun = FALSE /\ prev = NoPrev
    /\ cleared = FALSE /\ cause = "none"

\* if not os.path.exists(csv_file): sys.exit(1)
CheckFile ==
    /\ pc = "start"
    /\ \E exists \in BOOLEAN :
          /\ pc' = IF exists THEN "connect" ELSE "exited"
          /\ cause' = IF exists THEN cause ELSE "missing"
    /\ UNCHANGED <<storeVars, argVars, pos, batch, total_rows, inserted_rows,
                   skipped_rows, obsVars, cleared, mapVars, pageVars, authVars, twoVars, readVars>>

\* get_db_connection(): sys.exit(1) when the server cannot be reached
Connect ==
    /\ pc = "connect"
    /\ \E ok \in BOOLEAN :
          /\ connAlive' = ok
          /\ pc' = IF ~ok THEN "exited" ELSE IF truncate THEN "truncate" ELSE "open"
          /\ cause' = IF ok THEN cause ELSE "connect"
    /\ UNCHANGED <<table, pending, argVars, pos, batch, total_rows, inserted_rows,
                   skipped_rows, obsVars, cleared, mapVars, pageVars, authVars, twoVars, readVars>>

\* where the run goes when TRUNCATE raises: sys.exit(1) in truncate_table;
\* AfterClearErrorGoOn is a truncate_table that only prints the error
AfterClearErrorGoOn == "open"
AfterClearError == "exited"

\* truncate_table(connection): TRUNCATE TABLE, commit; sys.exit(1) on error
Truncate ==
    /\ pc = "truncate"
    /\ \E ok \in BOOLEAN :
          IF ok
          THEN /\ table' = EmptyBag
               /\ lastLoad' = NoLoad
               /\ cleared' = TRUE
               /\ pc' = "open"
               /\ UNCHANGED cause
          ELSE /\ pc' = AfterClearError
               /\ cause' = "clear"
               /\ UNCHANGED <<table, lastLoad, cleared>>
    /\ UNCHANGED <<pending, connAlive, argVars, pos, batch, total_rows, inserted_rows,
                   skipped_rows, calls, summary, commits, table0, rerun, prev,
                   mapVars, pageVars, authVars, twoVars, readVars>>

\* except Exception: connection.rollback(); sys.exit(1)
Rollback ==
    /\ pending' = EmptyBag
    /\ lastLoad' = NoLoad
    /\ pc' = "rolledback"

\* open(csv_file), csv.DictReader(f), len(reader.fieldnames), the four locals
OpenSource ==
    /\ pc = "open"
    /\ \E ok \in BOOLEAN :
          IF ok
          THEN /\ batch' = <<>>
               /\ total_rows' = 0 /\ inserted_rows' = 0 /\ skipped_rows' = 0
               /\ pc' = "read"
               /\ UNCHANGED <<pending, lastLoad, cause>>
          ELSE /\ Rollback
               /\ cause' = "open"
               /\ UNCHANGED <<batch, total_rows, inserted_rows, skipped_rows>>
    /\ UNCHANGED <<table, connAlive, argVars, pos, calls, summary, commits, table0,
                   rerun, prev, cleared, mapVars, pageVars, authVars, twoVars, readVars>>

\* if len(batch) >= batch_size; BatchFullStrict is the test written with `>`
BatchFullStrict(rows, size) == Len(rows) > size
BatchFull(rows, size) == Len(rows) >= size

\* one iteration of `for row in reader` up to the test of the batch length
ReadRow ==
    /\ pc = "read"
    /\ pos < Len(source)
    /\ pos' = pos + 1
    /\ total_rows' = total_rows + 1
    /\ batch' = Append(batch, MapRow(source[pos + 1]))
    /\ pc' = IF BatchFull(batch', batch_size) THEN "load" ELSE "read"
    /\ UNCHANGED <<storeVars, argVars, inserted_rows, skipped_rows, obsVars,
                   endVars, mapVars, pageVars, authVars, twoVars, readVars>>

\* the reader raises (undecodable bytes, csv.Error): the except branch
ReadError ==
    /\ pc = "read"
    /\ Rollback
    /\ cause' = "read"
    /\ UNCHANGED <<table, connAlive, argVars, pos, batch, total_rows, inserted_rows,
                   skipped_rows, calls, summary, commits, table0, rerun, prev,
                   cleared, mapVars, pageVars, authVars, twoVars, readVars>>

\* len(batch) - inserted; SkippedWhole counts the whole batch as skipped
SkippedWhole(rows, inserted) == Len(rows)
SkippedOf(rows, inserted) == Len(rows) - inserted

\* inserted = insert_batch(connection, batch); inserted_rows += inserted;
\* skipped_rows += len(batch) - inserted
CallInsertBatch(outcome) ==
    LET r == insert_batch(batch, outcome)
        lost == connAlive /\ outcome = "lost"
    IN  /\ pending' = IF lost THEN EmptyBag ELSE pending (+) r.added
        /\ connAlive' = (connAlive /\ ~lost)
        /\ inserted_rows' = inserted_rows + r.result
        /\ skipped_rows' = skipped_rows + SkippedOf(batch, r.result)
        /\ calls' = Append(calls, [batch   |-> batch,
                                   result  |-> r.result,
                                   outcome |-> IF connAlive THEN outcome ELSE "lost"])
        /\ lastLoad' = IF lost THEN NoLoad
                       ELSE IF connAlive /\ outcome = "ok" THEN batch
                       ELSE lastLoad

\* if len(batch) >= batch_size: ...; batch = []
LoadBatch ==
    /\ pc = "load"
    /\ \E outcome \in Outcomes : CallInsertBatch(outcome)
    /\ batch' = <<>>
    /\ pc' = "read"
    /\ UNCHANGED <<table, argVars, pos, total_rows, summary, commits, table0, rerun,
                   prev, endVars, mapVars, pageVars, authVars, twoVars, readVars>>

\* the loop ends
EndOfStream ==
    /\ pc = "read"
    /\ pos = Len(source)
    /\ pc' = IF batch # <<>> THEN "flush" ELSE "commit"
    /\ UNCHANGED <<storeVars, argVars, pos, batch, total_rows, inserted_rows,
                   skipped_rows, obsVars, endVars, mapVars, pageVars, authVars, twoVars, readVars>>

\* if batch: the last batch
FlushBatch ==
    /\ pc = "flush"
    /\ \E outcome \in Outcomes : CallInsertBatch(outcome)
    /\ pc' = "commit"
    /\ UNCHANGED <<table, argVars, pos, batch, total_rows, summary, commits, table0,
                   rerun, prev, endVars, mapVars, pageVars, authVars, twoVars, readVars>>

\* connection.commit() and the summary; a commit that raises takes the except branch
Commit ==
    /\ pc = "commit"
    /\ \E ok \in BOOLEAN :
          IF connAlive /\ ok
          THEN /\ table' = table (+) pending
               /\ pending' = EmptyBag
               /\ commits' = commits + 1
               /\ summary' = summary + 1
               /\ pc' = "committed"
               /\ UNCHANGED <<lastLoad, cause>>
          ELSE /\ Rollback
               /\ cause' = "commit"
               /\ UNCHANGED <<table, commits, summary>>
    /\ UNCHANGED <<connAlive, argVars, pos, batch, total_rows, inserted_rows,
                   skipped_rows, calls, table0, rerun, prev, cleared, mapVars, pageVars, authVars, twoVars, readVars>>

\* what the server keeps of the table when the connection is closed with a
\* transaction open: the transaction is discarded; DisconnectCommits is a
\* session that commits on close
DisconnectCommits(committed, open) == committed (+) open
Disconnect(committed, open) == committed

\* the caller cancels the run inside the try block (KeyboardInterrupt, which
\* is not an Exception): the except branch is passed over, and
\* finally: connection.close() ends the session
Interrupt ==
    /\ pc \in {"open", "read", "load", "flush", "commit"}
    /\ table' = Disconnect(table, pending)
    /\ pending' = EmptyBag
    /\ connAlive' = FALSE
    /\ lastLoad' = NoLoad
    /\ cause' = "interrupt"
    /\ pc' = "interrupted"
    /\ UNCHANGED <<argVars, pos, batch, total_rows, inserted_rows, skipped_rows,
                   calls, summary, commits, table0, rerun, prev, cleared,
                   mapVars, pageVars, authVars, twoVars, readVars>>

\* the operator runs the script again on the same file
Rerun ==
    /\ pc \in Terminal
    /\ ~rerun
    /\ rerun' = TRUE
    /\ prev' = [outcome  |-> pc,
                clean    |-> \A i \in DOMAIN calls : calls[i].outcome = "ok",
                truncate |-> truncate,
                inserted |-> inserted_rows]
    /\ truncate' \in BOOLEAN
    /\ table0' = table
    /\ pending' = EmptyBag /\ connAlive' = FALSE
    /\ pc' = "start" /\ pos' = 0 /\ batch' = <<>>
    /\ total_rows' = 0 /\ inserted_rows' = 0 /\ skipped_rows' = 0
    /\ calls' = <<>> /\ summary' = 0 /\ commits' = 0
    /\ cleared' = FALSE /\ cause' = "none"
    /\ UNCHANGED <<table, source, batch_size, lastLoad, mapVars, pageVars, authVars, twoVars, readVars>>

(***************************************************************************)
(* The token check in front of the handlers of both services               *)
(***************************************************************************)
\* the routes of api-mysql and of api-spark; verify_token tells whether the
\* handler declares Depends(verify_token)
Routes ==
    { [service |-> "api-mysql", handler |-> "health_check", verify_token |-> FALSE],
      [service |-> "api-mysql", handler |-> "get_entreprise_by_siren", verify_token |-> TRUE],
      [service |-> "api-mysql", handler |-> "get_entreprises_by_activite", verify_token |-> TRUE],
      [service |-> "api-mysql", handler |-> "search_entreprises_by_name", verify_token |-> TRUE],
      [service |-> "api-mysql", handler |-> "root", verify_token |-> FALSE],
      [service |-> "api-spark", handler |-> "health_check", verify_token |-> FALSE],
      [service |-> "api-spark", handler |-> "count_by_activity", verify_token |-> TRUE],
      [service |-> "api-spark", handler |-> "filter_by_activity", verify_token |-> TRUE],
      [service |-> "api-spark", handler |-> "top_activities", verify_token |-> TRUE],
      [service |-> "api-spark", handler |-> "bottom_activities", verify_token |-> TRUE],
      [service |-> "api-spark", handler |-> "root", verify_token |-> FALSE] }

\* an Authorization header is <<scheme, credentials>>, None when it is absent;
\* the token "good" is the one the OAuth2 server accepts
Headers ==
    { None, <<"Basic", "dXNlcg">>, <<"Bearer", "">>,
      <<"Bearer", "good">>, <<"Bearer", "expired">> }

\* the OAuth2 server asked about a token: the status of its answer, 0 when
\* the request to it fails
AuthorityModes == {"up", "error", "down"}
Secure(token, mode) ==
    CASE mode = "down"  -> 0
      [] mode = "error" -> 500
      [] OTHER          -> IF token = "good" THEN 200 ELSE 401

\* verify_token of api-mysql behind HTTPBearer(): the statuses it can raise,
\* or 200 when it returns the token data.  HTTPBearer refuses a request without bearer credentials with 403
\* or, in later versions of the framework, 401.
mysql_verify_token(header, mode) ==
    IF header = None \/ header[1] # "Bearer" \/ header[2] = ""
    THEN {401, 403}
    ELSE LET answer == Secure(header[2], mode)
         IN  CASE answer = 200 -> {200}
               [] answer = 401 -> {401}
               [] answer = 0   -> {503}
               [] OTHER        -> {500}

\* verify_token of api-spark: every failure is answered 401
spark_verify_token(header, mode) ==
    IF header = None \/ header[1] # "Bearer"
    THEN {401}
    ELSE IF Secure(header[2], mode) = 200 THEN {200} ELSE {401}

\* the statuses a handler can answer once it runs
HandlerStatuses(route) ==
    CASE route.handler \in {"health_check", "root"}  -> {200}
      [] route.handler = "get_entreprise_by_siren"  -> {200, 400, 404}
      [] route.handler = "filter_by_activity"       -> {200, 404, 500}
      [] route.service = "api-spark"                -> {200, 500}
      [] OTHER                                      -> {200}

InitIdleAuth ==
    /\ rqPc = "idle" /\ rqRoute = None /\ rqHeader = None
    /\ rqToken = "none" /\ rqStatus = 0

\* the verify_token of the service
verify_token(service, header, mode) ==
    IF service = "api-mysql"
    THEN mysql_verify_token(header, mode)
    ELSE spark_verify_token(header, mode)

\* the dependency Depends(verify_token) is resolved before the handler runs
ResolveToken ==
    /\ rqPc = "received"
    /\ rqRoute.verify_token
    /\ \E mode \in AuthorityModes :
          \E st \in verify_token(rqRoute.service, rqHeader, mode) :
              IF st = 200
              THEN /\ rqToken' = "ok"
                   /\ rqPc' = "handler"
                   /\ UNCHANGED rqStatus
              ELSE /\ rqToken' = "refused"
                   /\ rqStatus' = st
                   /\ rqPc' = "done"
    /\ UNCHANGED <<rqRoute, rqHeader, importVars, mapVars, pageVars, twoVars, readVars>>

VerifyTokenMysql ==
    rqRoute.service = "api-mysql" /\ ResolveToken
VerifyTokenSpark ==
    rqRoute.service = "api-spark" /\ ResolveToken

\* the handler `handler` of `service` runs: at once when it declares no
\* token dependency, after the token check otherwise
Handler(service, handler) ==
    /\ rqRoute # None
    /\ rqRoute.service = service /\ rqRoute.handler = handler
    /\ \/ rqPc = "handler"
       \/ rqPc = "received" /\ ~rqRoute.verify_token
    /\ rqStatus' \in HandlerStatuses(rqRoute)
    /\ rqPc' = "done"
    /\ UNCHANGED <<rqRoute, rqHeader, rqToken, importVars, mapVars, pageVars, twoVars, readVars>>

(***************************************************************************)
(* Two import runs without --truncate at work on the same table            *)
(***************************************************************************)
Runs == {1, 2}
Other(r) == 3 - r

TwoKeys == {"1", "2", "3"}
\* source files without a repeated key
TwoSources ==
    {src \in UNION {[1..n -> {SourceRecord(k) : k \in TwoKeys}] : n \in 0..MaxTwoRows} :
        \A i, j \in DOMAIN src : i # j => src[i] # src[j]}

InitIdleTwo ==
    /\ sharedTable = EmptyBag /\ sharedTable0 = EmptyBag /\ bothBatchSize = 1
    /\ runSource = <<>> /\ runPc = <<>> /\ runPos = <<>> /\ runBatch = <<>>
    /\ runInserted = <<>> /\ runSkipped = <<>> /\ runPending = <<>>
    /\ runStmt = <<>> /\ runAdded = <<>> /\ runFailed = <<>>

\* both runs have connected and opened their file
InitTwo ==
    /\ sharedTable \in {EmptyBag, SetToBag({OldRow("1")})}
    /\ sharedTable0 = sharedTable
    /\ bothBatchSize \in 1..MaxBatch
    \* overlapping data; the longer file is the one of run 1
    /\ runSource \in {f \in [Runs -> TwoSources] :
                          /\ Len(f[1]) >= Len(f[2])
                          /\ \E i \in DOMAIN f[1], j \in DOMAIN f[2] : f[1][i] = f[2][j]}
    /\ runPc = [r \in Runs |-> "read"]
    /\ runPos = [r \in Runs |-> 0]
    /\ runBatch = [r \in Runs |-> <<>>]
    /\ runInserted = [r \in Runs |-> 0]
    /\ runSkipped = [r \in Runs |-> 0]
    /\ runPending = [r \in Runs |-> EmptyBag]
    /\ runStmt = [r \in Runs |-> <<>>]
    /\ runAdded = [r \in Runs |-> EmptyBag]
    /\ runFailed = [r \in Runs |-> FALSE]

\* one iteration of `for row in reader`; a full batch goes to insert_batch,
\* whose executemany starts on the rows of the batch
TwoReadRow(r) ==
    /\ runPc[r] = "read"
    /\ runPos[r] < Len(runSource[r])
    /\ LET rows == Append(runBatch[r], MapRow(runSource[r][runPos[r] + 1]))
           full == BatchFull(rows, bothBatchSize)
       IN  /\ runBatch' = [runBatch EXCEPT ![r] = rows]
           /\ runPos' = [runPos EXCEPT ![r] = @ + 1]
           /\ runPc' = [runPc EXCEPT ![r] = IF full THEN "load" ELSE "read"]
           /\ runStmt' = [runStmt EXCEPT ![r] = IF full THEN StatementRows(rows) ELSE @]
    /\ UNCHANGED <<sharedTable, sharedTable0, bothBatchSize, runSource, runInserted,
                   runSkipped, runPending, runAdded, runFailed,
                   importVars, mapVars, pageVars, authVars, readVars>>

\* the loop ends; if batch: the last batch goes to insert_batch
TwoEndOfStream(r) ==
    /\ runPc[r] = "read"
    /\ runPos[r] = Len(runSource[r])
    /\ runPc' = [runPc EXCEPT ![r] = IF runBatch[r] # <<>> THEN "flush" ELSE "commit"]
    /\ runStmt' = [runStmt EXCEPT ![r] = StatementRows(runBatch[r])]
    /\ UNCHANGED <<sharedTable, sharedTable0, bothBatchSize, runSource, runPos, runBatch,
                   runInserted, runSkipped, runPending, runAdded, runFailed,
                   importVars, mapVars, pageVars, authVars, readVars>>

\* the next row of the statement of run r has the key of a row the other
\* run inserted and has not committed: the statement waits for the row lock
Waits(r) ==
    /\ runPc[r] \in {"load", "flush"}
    /\ runStmt[r] # <<>>
    /\ KeyOf(Head(runStmt[r])) \in BagKeys(runPending[Other(r)])

\* INSERT IGNORE handles the next row of the statement
TwoInsertRow(r) ==
    /\ runPc[r] \in {"load", "flush"}
    /\ runStmt[r] # <<>>
    /\ ~Waits(r)
    /\ LET row == Head(runStmt[r])
           new == IF IgnoreDuplicate(sharedTable (+) runPending[r], row)
                  THEN EmptyBag ELSE SetToBag({row})
       IN  /\ runPending' = [runPending EXCEPT ![r] = @ (+) new]
           /\ runAdded' = [runAdded EXCEPT ![r] = @ (+) new]
    /\ runStmt' = [runStmt EXCEPT ![r] = Tail(@)]
    /\ UNCHANGED <<sharedTable, sharedTable0, bothBatchSize, runSource, runPc, runPos,
                   runBatch, runInserted, runSkipped, runFailed,
                   importVars, mapVars, pageVars, authVars, readVars>>

\* insert_batch returns `result` to import_csv: the two counters, and
\* batch = [] in the loop
Returned(r, result) ==
    /\ runInserted' = [runInserted EXCEPT ![r] = @ + result]
    /\ runSkipped' = [runSkipped EXCEPT ![r] = @ + (Len(runBatch[r]) - result)]
    /\ runBatch' = [runBatch EXCEPT ![r] = IF runPc[r] = "load" THEN <<>> ELSE @]
    /\ runPc' = [runPc EXCEPT ![r] = IF runPc[r] = "load" THEN "read" ELSE "commit"]
    /\ runStmt' = [runStmt EXCEPT ![r] = <<>>]
    /\ runAdded' = [runAdded EXCEPT ![r] = EmptyBag]

\* the statement is through: return cursor.rowcount
TwoReturn(r) ==
    /\ runPc[r] \in {"load", "flush"}
    /\ runStmt[r] = <<>>
    /\ Returned(r, RowCount(runAdded[r], runBatch[r]))
    /\ UNCHANGED <<sharedTable, sharedTable0, bothBatchSize, runSource, runPos,
                   runPending, runFailed, importVars, mapVars, pageVars, authVars, readVars>>

\* the wait for the row lock times out: the server undoes the statement and
\* raises; except Exception: return 0
TwoLockWaitTimeout(r) ==
    /\ Waits(r)
    /\ runPending' = [runPending EXCEPT ![r] = @ (-) runAdded[r]]
    /\ runFailed' = [runFailed EXCEPT ![r] = TRUE]
    /\ Returned(r, 0)
    /\ UNCHANGED <<sharedTable, sharedTable0, bothBatchSize, runSource, runPos,
                   importVars, mapVars, pageVars, authVars, readVars>>

\* each run waits for a row of the other: the server picks run r as the
\* victim of the deadlock, rolls back its whole transaction and raises;
\* except Exception: return 0
TwoDeadlock(r) ==
    /\ Waits(r) /\ Waits(Other(r))
    /\ runPending' = [runPending EXCEPT ![r] = EmptyBag]
    /\ runFailed' = [runFailed EXCEPT ![r] = TRUE]
    /\ Returned(r, 0)
    /\ UNCHANGED <<sharedTable, sharedTable0, bothBatchSize, runSource, runPos,
                   importVars, mapVars, pageVars, authVars, readVars>>

\* connection.commit(); a commit that raises takes the except branch
TwoCommit(r) ==
    /\ runPc[r] = "commit"
    /\ \E ok \in BOOLEAN :
          /\ sharedTable' = IF ok THEN sharedTable (+) runPending[r] ELSE sharedTable
          /\ runPc' = [runPc EXCEPT ![r] = IF ok THEN "committed" ELSE "rolledback"]
    /\ runPending' = [runPending EXCEPT ![r] = EmptyBag]
    /\ UNCHANGED <<sharedTable0, bothBatchSize, runSource, runPos, runBatch, runInserted,
                   runSkipped, runStmt, runAdded, runFailed,
                   importVars, mapVars, pageVars, authVars, readVars>>

\* the reader raises: except Exception: connection.rollback()
TwoReadError(r) ==
    /\ runPc[r] = "read"
    /\ runPending' = [runPending EXCEPT ![r] = EmptyBag]
    /\ runPc' = [runPc EXCEPT ![r] = "rolledback"]
    /\ UNCHANGED <<sharedTable, sharedTable0, bothBatchSize, runSource, runPos, runBatch,
                   runInserted, runSkipped, runStmt, runAdded, runFailed,
                   importVars, mapVars, pageVars, authVars, readVars>>

(***************************************************************************)
(* A list request served while import runs commit rows                     *)
(***************************************************************************)
\* both queries of a handler of api-mysql run in the one transaction of the
\* session (sessionmaker(autocommit=False)); the engine sets no isolation
\* level, the server's applies
IsolationLevels == {"READ COMMITTED", "REPEATABLE READ"}
ReadHandlers == {"get_entreprises_by_activite", "count_by_activity"}

\* the number of rows a query sees: under REPEATABLE READ a query of api-mysql
\* reads the view of the first query of its transaction, otherwise what is
\* committed when it runs; SeesLatest is a server that always reads the latest
SeesLatest(handler, isolation, snapshot, store) == store
Sees(handler, isolation, snapshot, store) ==
    IF handler = "get_entreprises_by_activite" /\ isolation = "REPEATABLE READ"
    THEN snapshot
    ELSE store

InitIdleRead ==
    /\ rdPc = "idle" /\ rdHandler = None /\ rdIsolation = None
    /\ rdPage = 1 /\ rdLimit = 1 /\ rdStore = 0 /\ rdSnapshot = 0
    /\ rdTotal = 0 /\ rdGrew = FALSE /\ rdOut = None

\* total = db.query(func.count(...)).scalar(), total = df.count()
CountQuery ==
    /\ rdPc = "request"
    /\ rdSnapshot' = rdStore
    /\ rdTotal' = Sees(rdHandler, rdIsolation, rdSnapshot', rdStore)
    /\ rdPc' = "counted"
    /\ UNCHANGED <<rdHandler, rdIsolation, rdPage, rdLimit, rdStore, rdGrew, rdOut,
                   importVars, mapVars, pageVars, authVars, twoVars>>

\* the item query of the handler and the response built from both results
ItemQuery ==
    /\ rdPc = "counted"
    /\ LET rows == StoreRows(Sees(rdHandler, rdIsolation, rdSnapshot, rdStore))
           offset == (rdPage - 1) * rdLimit
           items == IF rdHandler = "count_by_activity"
                    THEN LimitOffset(rows, offset, rdLimit)
                    ELSE OffsetLimit(rows, offset, rdLimit)
       IN  rdOut' = [numberOfItems   |-> Len(items),
                     itemListElement |-> items,
                     totalItems      |-> rdTotal]
    /\ rdPc' = "answered"
    /\ UNCHANGED <<rdHandler, rdIsolation, rdPage, rdLimit, rdStore, rdSnapshot, rdTotal,
                   rdGrew, importVars, mapVars, pageVars, authVars, twoVars>>

\* connection.commit() of an import run: n new rows become visible
ImportCommit ==
    /\ rdPc \in {"request", "counted"}
    /\ \E n \in 1..(MaxStore - rdStore) : rdStore' = rdStore + n
    /\ rdGrew' = (rdPc = "counted")
    /\ UNCHANGED <<rdPc, rdHandler, rdIsolation, rdPage, rdLimit, rdSnapshot, rdTotal,
                   rdOut, importVars, mapVars, pageVars, authVars, twoVars>>

(***************************************************************************)
(* Specifications                                                          *)
(***************************************************************************)
Init == InitImport /\ InitIdleMap /\ InitIdlePage /\ InitIdleAuth /\ InitIdleTwo /\ InitIdleRead

Next ==
    \/ CheckFile
    \/ Connect
    \/ Truncate
    \/ OpenSource
    \/ ReadRow
    \/ ReadError
    \/ LoadBatch
    \/ EndOfStream
    \/ FlushBatch
    \/ Commit
    \/ Interrupt
    \/ Rerun

Spec == Init /\ [][Next]_vars

\* the Row Mapper applied to one record
InitMap ==
    /\ InitIdleImport /\ InitIdlePage /\ InitIdleAuth /\ InitIdleTwo /\ InitIdleRead
    /\ mapPc = "in" /\ mapIn \in MapInputs /\ mapOut = None

NextMap == MapOne

SpecMap == InitMap /\ [][NextMap]_vars

\* one list request against an unchanging store
InitPage ==
    /\ InitIdleImport /\ InitIdleMap /\ InitIdleAuth /\ InitIdleTwo /\ InitIdleRead
    /\ pgPc = "request"
    /\ pgPage \in 1..MaxPage
    /\ pgLimit \in 1..MaxLimit
    /\ pgTotal \in 0..MaxTotal
    /\ pgOut = None

NextPage ==
    \/ count_by_activity
    \/ get_entreprises_by_activite
    \/ search_entreprises_by_name

SpecPage == InitPage /\ [][NextPage]_vars

\* one request to one route of one service
InitAuth ==
    /\ InitIdleImport /\ InitIdleMap /\ InitIdlePage /\ InitIdleTwo /\ InitIdleRead
    /\ rqPc = "received"
    /\ rqRoute \in Routes
    /\ rqHeader \in Headers
    /\ rqToken = "none" /\ rqStatus = 0

NextAuth ==
    \/ VerifyTokenMysql
    \/ VerifyTokenSpark
    \/ Handler("api-mysql", "health_check")
    \/ Handler("api-mysql", "get_entreprise_by_siren")
    \/ Handler("api-mysql", "get_entreprises_by_activite")
    \/ Handler("api-mysql", "search_entreprises_by_name")
    \/ Handler("api-mysql", "root")
    \/ Handler("api-spark", "health_check")
    \/ Handler("api-spark", "count_by_activity")
    \/ Handler("api-spark", "filter_by_activity")
    \/ Handler("api-spark", "top_activities")
    \/ Handler("api-spark", "bottom_activities")
    \/ Handler("api-spark", "root")

SpecAuth == InitAuth /\ [][NextAuth]_vars

\* two concurrent runs
InitTwoRuns ==
    /\ InitIdleImport /\ InitIdleMap /\ InitIdlePage /\ InitIdleAuth /\ InitIdleRead
    /\ InitTwo

NextTwo ==
    \E r \in Runs :
        \/ TwoReadRow(r)
        \/ TwoReadError(r)
        \/ TwoEndOfStream(r)
        \/ TwoInsertRow(r)
        \/ TwoReturn(r)
        \/ TwoLockWaitTimeout(r)
        \/ TwoDeadlock(r)
        \/ TwoCommit(r)

SpecTwo == InitTwoRuns /\ [][NextTwo]_vars

\* one list request and the commits of import runs
InitRead ==
    /\ InitIdleImport /\ InitIdleMap /\ InitIdlePage /\ InitIdleAuth /\ InitIdleTwo
    /\ rdPc = "request"
    /\ rdHandler \in ReadHandlers
    /\ rdIsolation \in IsolationLevels
    /\ rdPage \in 1..MaxPage
    /\ rdLimit \in 1..MaxStore
    /\ rdStore \in 0..MaxStore
    /\ rdSnapshot = 0 /\ rdTotal = 0 /\ rdGrew = FALSE /\ rdOut = None

NextRead ==
    \/ CountQuery
    \/ ImportCommit
    \/ ItemQuery

SpecRead == InitRead /\ [][NextRead]_vars

(***************************************************************************)
(* Properties of the import run                                            *)
(***************************************************************************)
\* the run met a store failure other than a key conflict on batch i
Rejected(i) == calls[i].outcome # "ok"
SomeRejected == \E i \in DOMAIN calls : Rejected(i)
\* the table the inserts of the run start from
BaseTable == IF truncate THEN EmptyBag ELSE table0
SourceKeys == {KeyOf(MapRow(source[i])) : i \in DOMAIN source}

\* C1: when the store rejects a batch for a reason other than a key conflict,
\* the run ends failed and rolled back: no commit of inserts is issued and the
\* table holds no row inserted by this run.
C1_RejectedBatchRollsBackRun ==
    (pc \in Terminal /\ SomeRejected) =>
        /\ pc = "rolledback"
        /\ commits = 0
        /\ table \sqsubseteq table0

\* C2: a batch the store rejects for a non-duplicate reason adds zero to the
\* persisted counter and zero to the skipped counter, and import_csv observes
\* the failure (it takes its except branch instead of going on).
C2_RejectedBatchCountsNothing ==
    [][ ( /\ pc \in {"load", "flush"}
          /\ Len(calls') = Len(calls) + 1
          /\ calls'[Len(calls')].outcome # "ok" )
        => ( /\ inserted_rows' = inserted_rows
             /\ skipped_rows' = skipped_rows
             /\ pc' = "rolledback" ) ]_vars

\* C3: a run that met an unrecoverable error ends rolled back with the table
\* exactly as it was before the run, with or without the clear flag; and every
\* terminated run is either fully committed (every source key is in the table)
\* or fully rolled back (the table is what it was before the run), never both.
ErrorOccurred == pc = "rolledback" \/ SomeRejected
FullyCommitted ==
    /\ commits = 1
    /\ BagKeys(table) = BagKeys(BaseTable) \cup SourceKeys
FullyRolledBack == commits = 0 /\ table = table0
C3_AllOrNothing ==
    pc \in Terminal =>
        /\ ErrorOccurred => (pc = "rolledback" /\ table = table0)
        /\ FullyCommitted # FullyRolledBack

\* C3 without the clear flag: the same statement for runs that do not clear
C3_AllOrNothing_NoClear == truncate \/ C3_AllOrNothing

\* C4: applying insert_batch to the batch the store accepted last and still
\* retains returns 0, so the controller adds the batch size to the skipped
\* counter, and leaves the table and the transaction as they were.
SameBatchAgain ==
    /\ pc \in {"load", "flush"}
    /\ batch # <<>>
    /\ lastLoad = batch
C4_SecondApplicationPersistsNothing ==
    [][ (SameBatchAgain /\ connAlive')
        => ( /\ inserted_rows' = inserted_rows
             /\ skipped_rows' = skipped_rows + Len(batch)
             /\ table' = table
             /\ pending' = pending ) ]_vars
PairwiseDistinctKeys(rows) ==
    \A i, j \in DOMAIN rows : KeyOf(rows[i]) = KeyOf(rows[j]) => i = j
C4_Witness ==
    /\ rerun /\ ~truncate
    /\ prev.outcome = "committed" /\ prev.inserted = 2
    /\ pc = "committed"
    /\ Len(calls) = 1
    /\ Len(calls[1].batch) = 2
    /\ PairwiseDistinctKeys(calls[1].batch)
    /\ calls[1].outcome = "ok" /\ calls[1].result = 0
    /\ inserted_rows = 0 /\ skipped_rows = 2
    /\ table = table0

\* no key has two rows in the table
OneRowPerKey(bag) ==
    \A r1, r2 \in BagToSet(bag) :
        /\ CopiesIn(r1, bag) = 1
        /\ KeyOf(r1) = KeyOf(r2) => r1 = r2
NoDuplicateRows == OneRowPerKey(table) /\ OneRowPerKey(table (+) pending)

\* C5: a re-run without the clear flag over the same source that commits leaves
\* exactly one row per key, the keys being those the table had before plus
\* every source key; after a committed first run it reports persisted = 0 and
\* skipped = records read.
C5_RerunAddsNoDuplicate ==
    (rerun /\ ~truncate /\ prev.outcome \in {"committed", "rolledback"}
           /\ pc = "committed") =>
        /\ OneRowPerKey(table)
        /\ BagKeys(table) = BagKeys(table0) \cup SourceKeys
        /\ prev.outcome = "committed" =>
               (inserted_rows = 0 /\ skipped_rows = total_rows
                    /\ total_rows = Len(source))

\* the same statement for runs in which the store rejected no batch
C5_WhenNoBatchRejected == (prev.clean /\ ~SomeRejected) => C5_RerunAddsNoDuplicate
C5_Witness ==
    /\ rerun /\ ~truncate /\ prev.outcome = "committed" /\ prev.clean
    /\ ~SomeRejected /\ pc = "committed"
    /\ Len(source) = 3 /\ SourceKeys = Keys
    /\ prev.inserted = 1

\* C6: at a successful end the skipped counter is the number of source records
\* whose key was already in the table or occurs earlier in the source, and the
\* persisted counter is the number of distinct source keys that were not in
\* the table.
Colliding(i) ==
    LET k == KeyOf(MapRow(source[i]))
    IN  \/ k \in BagKeys(BaseTable)
        \/ \E j \in 1..(i - 1) : KeyOf(MapRow(source[j])) = k
C6_SkippedCountsCollisions ==
    pc = "committed" =>
        /\ skipped_rows = Cardinality({i \in DOMAIN source : Colliding(i)})
        /\ inserted_rows = Cardinality(SourceKeys \ BagKeys(BaseTable))

\* the same statement for runs in which the store rejected no batch
C6_WhenNoBatchRejected == ~SomeRejected => C6_SkippedCountsCollisions
C6_Witness ==
    /\ pc = "committed" /\ ~SomeRejected
    /\ Len(source) = 3 /\ source[1] = source[3] /\ source[1] # source[2]
    /\ BaseTable = EmptyBag
    /\ skipped_rows = 1 /\ inserted_rows = 2 /\ Len(calls) = 2

\* C7: with batch_size >= 1 a run over N records calls insert_batch on
\* floor(N / batch_size) batches of batch_size records, then on one batch of
\* N mod batch_size records when that is not zero, and on nothing else.
BatchSizes == [i \in DOMAIN calls |-> Len(calls[i].batch)]
ExpectedSizes(N, size) ==
    [i \in 1..((N \div size) + (IF N % size # 0 THEN 1 ELSE 0)) |->
        IF i <= N \div size THEN size ELSE N % size]
C7_BatchCounts ==
    (batch_size >= 1 /\ pc \in {"commit", "committed"}) =>
        BatchSizes = ExpectedSizes(Len(source), batch_size)
C7_Witness ==
    /\ pc = "committed"
    /\ batch_size = 2
    /\ Len(source) = 3
    /\ BatchSizes = <<2, 1>>
C7_WitnessExact ==
    /\ pc = "committed"
    /\ batch_size = 2
    /\ Len(source) = 2
    /\ BatchSizes = <<2>>

(***************************************************************************)
(* Properties of the Row Mapper                                            *)
(***************************************************************************)
\* C8: the mapped record has exactly the target columns of COLUMN_MAPPING,
\* each once; a column is null when its source field is absent, None or the
\* empty string and is the raw source string otherwise; unmapped source fields
\* do not appear.
C8_MappedRecordShape ==
    mapPc = "out" =>
        /\ DOMAIN mapOut = {COLUMN_MAPPING[i][2] : i \in DOMAIN COLUMN_MAPPING}
        /\ Cardinality(DOMAIN mapOut) = Len(COLUMN_MAPPING)
        /\ \A i \in DOMAIN COLUMN_MAPPING :
              LET csv_col == COLUMN_MAPPING[i][1]
                  db_col == COLUMN_MAPPING[i][2]
              IN  IF csv_col \notin DOMAIN mapIn
                  THEN mapOut[db_col] = None
                  ELSE IF mapIn[csv_col] \in {None, Str("")}
                       THEN mapOut[db_col] = None
                       ELSE mapOut[db_col] = mapIn[csv_col]
        /\ \A f \in DOMAIN mapIn : f \notin CsvColumns => f \notin DOMAIN mapOut
C8_Witness ==
    /\ mapPc = "out"
    /\ "sigleUniteLegale" \notin DOMAIN mapIn
    /\ "champInconnu" \in DOMAIN mapIn
    /\ "siren" \in DOMAIN mapIn /\ mapIn["siren"] = Str("")
    /\ mapOut["siren"] = None /\ mapOut["sigle_unite_legale"] = None
C8_WitnessRaw ==
    /\ mapPc = "out"
    /\ "siren" \in DOMAIN mapIn /\ mapIn["siren"] = Str(" x ")
    /\ mapOut["siren"] = Str(" x ")

(***************************************************************************)
(* Properties of the pagination                                            *)
(***************************************************************************)
Answered == pgPc \in {"spark", "activite", "search"}

\* C9: total_pages is 1 when totalItems is 0 and otherwise the least number
\* of pages of `limit` items that hold totalItems items; on every page of
\* 1..total_pages has_next is (page < total_pages) and has_prev is (page > 1);
\* in create_pagination and in both api-mysql list endpoints.
C9_PaginationMetadata ==
    Answered =>
        LET p == pgOut.pagination
            tp == p.total_pages
        IN  /\ pgTotal = 0 => tp = 1
            /\ pgTotal > 0 => (tp * pgLimit >= pgTotal /\ (tp - 1) * pgLimit < pgTotal)
            /\ pgPage \in 1..tp =>
                  /\ p.has_next = (pgPage < tp)
                  /\ p.has_prev = (pgPage > 1)
C9_Witness ==
    /\ pgPc = "activite"
    /\ pgTotal = 45 /\ pgLimit = 20 /\ pgPage = 2
    /\ pgOut.pagination.total_pages = 3
    /\ pgOut.pagination.has_next /\ pgOut.pagination.has_prev
C9_WitnessSpark ==
    /\ pgPc = "spark"
    /\ pgTotal = 0 /\ pgPage = 1
    /\ pgOut.pagination.total_pages = 1
    /\ ~pgOut.pagination.has_next /\ ~pgOut.pagination.has_prev

\* How the services read a link back: the query string starts after the
\* first "?", its parameters are separated by "&", a parameter's value is
\* whatever follows its first "=".
FirstIndex(seq, tok) ==
    IF \E i \in DOMAIN seq : seq[i] = tok
    THEN CHOOSE i \in DOMAIN seq : seq[i] = tok /\ \A j \in 1..(i - 1) : seq[j] # tok
    ELSE 0
QueryOf(url) ==
    IF FirstIndex(url, "?") = 0 THEN <<>>
    ELSE SubSeq(url, FirstIndex(url, "?") + 1, Len(url))
RECURSIVE SplitParams(_)
SplitParams(query) ==
    IF query = <<>> THEN <<>>
    ELSE IF FirstIndex(query, "&") = 0 THEN <<query>>
    ELSE <<SubSeq(query, 1, FirstIndex(query, "&") - 1)>>
             \o SplitParams(SubSeq(query, FirstIndex(query, "&") + 1, Len(query)))
ParamName(param) ==
    IF FirstIndex(param, "=") = 0 THEN param
    ELSE SubSeq(param, 1, FirstIndex(param, "=") - 1)
ParamValue(param) ==
    IF FirstIndex(param, "=") = 0 THEN <<>>
    ELSE SubSeq(param, FirstIndex(param, "=") + 1, Len(param))
Numbers == 0..(MaxTotal + MaxLimit + MaxPage)
\* the integer a request for `url` carries in parameter `name`: `default`
\* when the parameter is missing, -1 when its value is no integer
QueryInt(url, name, default) ==
    LET params == SplitParams(QueryOf(url))
        hits == {i \in DOMAIN params : ParamName(params[i]) = <<name>>}
    IN  IF hits = {} THEN default
        ELSE LET v == ParamValue(params[CHOOSE i \in hits : \A j \in hits : j <= i])
             IN  IF Len(v) = 1 /\ \E n \in Numbers : ToString(n) = v[1]
                 THEN CHOOSE n \in Numbers : ToString(n) = v[1]
                 ELSE -1
\* page: int = Query(1, ge=1), limit: int = Query(20, ge=1, le=100)
DefaultPage == 1
DefaultLimit == 20
TargetsPage(url, page, limit) ==
    /\ QueryInt(url, "page", DefaultPage) = page
    /\ QueryInt(url, "limit", DefaultLimit) = limit

\* the four navigation links of a response, None where the link is absent
LinkNames == {"first", "previous", "next", "last"}
Links ==
    LET view == IF "view" \in DOMAIN pgOut.pagination
                THEN pgOut.pagination.view ELSE None
    IN  [k \in LinkNames |->
            IF view # None /\ k \in DOMAIN view THEN view[k] ELSE None]

LinksAsClaimed ==
    LET tp == pgOut.pagination.total_pages
        L == Links
    IN  /\ (L["first"] # None) = (pgPage > 1)
        /\ (L["previous"] # None) = (pgPage > 1)
        /\ (L["next"] # None) = (pgPage < tp)
        /\ (L["last"] # None) = (pgPage < tp)
        /\ L["first"] # None => TargetsPage(L["first"], 1, pgLimit)
        /\ L["previous"] # None => TargetsPage(L["previous"], pgPage - 1, pgLimit)
        /\ L["next"] # None => TargetsPage(L["next"], pgPage + 1, pgLimit)
        /\ L["last"] # None => TargetsPage(L["last"], tp, pgLimit)

\* C10: on page 1 first and previous are absent, on the last page next and
\* last are absent, every other link of a page of 1..total_pages is present,
\* and a link that is present targets page 1, page - 1, page + 1 or
\* total_pages respectively, with the limit of the request.
C10_NavigationLinks ==
    (Answered /\ pgPage \in 1..pgOut.pagination.total_pages) => LinksAsClaimed

\* the same statement for the responses of count_by_activity and of
\* get_entreprises_by_activite
C10_LinksOfPlainBase ==
    (pgPc \in {"spark", "activite"} /\ pgPage \in 1..pgOut.pagination.total_pages)
        => LinksAsClaimed
\* which links a response of search_entreprises_by_name carries
C10_LinksPresentInSearch ==
    (pgPc = "search" /\ pgPage \in 1..pgOut.pagination.total_pages) =>
        LET tp == pgOut.pagination.total_pages
        IN  /\ (Links["first"] # None) = (pgPage > 1)
            /\ (Links["previous"] # None) = (pgPage > 1)
            /\ (Links["next"] # None) = (pgPage < tp)
            /\ (Links["last"] # None) = (pgPage < tp)

\* C11: a request whose page exceeds total_pages is answered: has_next is
\* false and has_prev true, the links first and previous are present and
\* next and last absent, the query at offset (page - 1) * limit returns no
\* row, so numberOfItems is 0, and totalItems is still the store's count.
C11_PageBeyondLast ==
    (Answered /\ pgPage > pgOut.pagination.total_pages) =>
        /\ ~pgOut.pagination.has_next
        /\ pgOut.pagination.has_prev
        /\ Links["first"] # None /\ Links["previous"] # None
        /\ Links["next"] = None /\ Links["last"] = None
        /\ pgOut.itemListElement = <<>>
        /\ pgOut.numberOfItems = 0
        /\ pgOut.totalItems = pgTotal
C11_Witness ==
    /\ pgPc = "activite"
    /\ pgTotal = 45 /\ pgLimit = 20 /\ pgPage = 5
    /\ pgOut.pagination.total_pages = 3
    /\ pgOut.numberOfItems = 0 /\ pgOut.totalItems = 45
C11_WitnessSpark ==
    /\ pgPc = "spark"
    /\ pgTotal = 3 /\ pgLimit = 2 /\ pgPage = 4
    /\ pgOut.pagination["has_prev"] /\ ~pgOut.pagination["has_next"]
    /\ "previous" \in DOMAIN pgOut.pagination["view"]

\* C17: in every response of the two api-mysql list endpoints over an
\* unchanging store, totalItems is the number of matching rows and
\* numberOfItems is the length of the returned page, which is
\* min(limit, max(0, totalItems - (page - 1) * limit)).
C17_ItemCounts ==
    pgPc \in {"activite", "search"} =>
        /\ pgOut.totalItems = pgTotal
        /\ pgOut.pagination.totalItems = pgTotal
        /\ pgOut.numberOfItems = Len(pgOut.itemListElement)
        /\ pgOut.numberOfItems =
               Min(pgLimit, Max(0, pgOut.totalItems - (pgPage - 1) * pgLimit))
C17_Witness ==
    /\ pgPc = "search"
    /\ pgTotal = 45 /\ pgLimit = 20 /\ pgPage = 3
    /\ pgOut.numberOfItems = 5 /\ pgOut.totalItems = 45
C17_WitnessFullPage ==
    /\ pgPc = "activite"
    /\ pgTotal = 45 /\ pgLimit = 20 /\ pgPage = 2
    /\ pgOut.numberOfItems = 20
    /\ pgOut.itemListElement = [i \in 1..20 |-> 20 + i]

\* the rows of rank first..last in the order of siren_count descending
Ranks(first, last) == [i \in 1..(last - first + 1) |-> first + i - 1]

\* C19: for every page p of 1..total_pages count_by_activity returns exactly
\* the rows of rank (p - 1) * limit + 1 .. min(p * limit, total) in the order
\* of siren_count descending, and numberOfItems is
\* min(limit, total - (p - 1) * limit); the pages together return every row
\* once.
C19_SparkPageItems ==
    (pgPc = "spark" /\ pgPage \in 1..pgOut["pagination"]["total_pages"]) =>
        /\ pgOut.itemListElement =
               Ranks((pgPage - 1) * pgLimit + 1, Min(pgPage * pgLimit, pgTotal))
        /\ pgOut.numberOfItems = Min(pgLimit, pgTotal - (pgPage - 1) * pgLimit)
\* the same statement for the first page alone
C19_FirstPageItems ==
    (pgPc = "spark" /\ pgPage = 1) =>
        /\ pgOut.itemListElement = Ranks(1, Min(pgLimit, pgTotal))
        /\ pgOut.numberOfItems = Min(pgLimit, pgTotal)
\* every later page of count_by_activity is empty
C19_LaterPagesEmpty ==
    (pgPc = "spark" /\ pgPage > 1) => pgOut.numberOfItems = 0

(***************************************************************************)
(* The clear, the source, cancellation, the counters, the batches          *)
(***************************************************************************)
\* C12: with --truncate the clear is executed and committed before any record
\* is read or inserted, and it stays whatever becomes of the insert
\* transaction; when the clear fails the run ends at once: no record is read,
\* no insert is issued and nothing is committed.
C12_ClearComesFirst ==
    truncate =>
        /\ (pos > 0 \/ total_rows > 0 \/ batch # <<>> \/ calls # <<>>
                \/ pending # EmptyBag \/ commits > 0) => cleared
        /\ ~cleared => table = table0
        /\ (cleared /\ commits = 0) => table = EmptyBag
        /\ cause = "clear" =>
              /\ pc = "exited" /\ ~cleared
              /\ pos = 0 /\ total_rows = 0 /\ batch = <<>>
              /\ calls = <<>> /\ pending = EmptyBag /\ commits = 0
              /\ table = table0
\* the clear outlives the rollback of the inserts
C12_Witness ==
    /\ truncate /\ cleared
    /\ pc = "rolledback"
    /\ \E i \in DOMAIN calls : calls[i].result > 0
    /\ table0 # EmptyBag /\ table = EmptyBag
\* the clear fails
C12_WitnessClearFails ==
    /\ truncate /\ cause = "clear" /\ pc = "exited"
    /\ table0 # EmptyBag /\ table = table0

\* C13: when the source cannot be opened or streamed (the file is missing, or
\* it exists but open or the reader fails) the run fails having changed
\* nothing in the store: no clear, no insert, no commit, also with --truncate.
C13_SourceFailureMutatesNothing ==
    cause \in {"missing", "open", "read"} =>
        /\ ~cleared
        /\ calls = <<>>
        /\ commits = 0
        /\ table = table0
\* the same statement for a missing file alone
C13_MissingFileMutatesNothing ==
    cause = "missing" =>
        /\ pc = "exited" /\ ~cleared /\ calls = <<>> /\ pending = EmptyBag
        /\ commits = 0 /\ table = table0
\* without --truncate a source failure leaves the table as it was
C13_WithoutClearTableKept ==
    (~truncate /\ cause \in {"missing", "open", "read"}) =>
        /\ pending = EmptyBag /\ commits = 0 /\ table = table0

\* C15: when the caller cancels the run between the first insert and the
\* final commit, the rollback path (the except branch) is taken and none of
\* the batches inserted so far is visible in the table after the run ended.
C15_CancelTakesRollbackPath ==
    (cause = "interrupt" /\ calls # <<>>) =>
        /\ pc = "rolledback"
        /\ commits = 0
        /\ pending = EmptyBag
        /\ table = BaseTable
\* C15, as the code has it: the except branch is passed over; the finally
\* clause closes the connection with the transaction open, the server
\* discards it, and none of the batches inserted so far is visible.
C15_CancelDiscardsTransaction ==
    (cause = "interrupt" /\ calls # <<>>) =>
        /\ pc = "interrupted"
        /\ ~connAlive
        /\ commits = 0 /\ summary = 0
        /\ pending = EmptyBag
        /\ table = BaseTable
C15_Witness ==
    /\ pc = "interrupted"
    /\ Len(calls) = 1 /\ calls[1].outcome = "ok" /\ calls[1].result = 2
    /\ ~truncate
    /\ table = table0

\* C16: within a run the counters read, persisted and skipped never decrease
\* from one step to the next (a batch's inserted count never exceeds its
\* length), and the summary is printed exactly once, by the step that
\* performs the final commit.
C16_CountersAndSummary ==
    [][ rerun' = rerun =>
            /\ total_rows' >= total_rows
            /\ inserted_rows' >= inserted_rows
            /\ skipped_rows' >= skipped_rows
            /\ Len(calls') > Len(calls) =>
                  calls'[Len(calls')].result <= Len(calls'[Len(calls')].batch)
            /\ summary' >= summary /\ summary' <= 1
            /\ summary' # summary =>
                  (pc = "commit" /\ pc' = "committed" /\ commits = 0 /\ commits' = 1)
            /\ (pc' = "committed") = (summary' = 1) ]_vars
C16_Witness ==
    /\ pc = "committed" /\ summary = 1 /\ commits = 1
    /\ total_rows = 3 /\ inserted_rows = 1 /\ skipped_rows = 2
    /\ Len(calls) = 2

\* the batches import_csv has handed or is handing to insert_batch
HandedBatches ==
    {calls[i].batch : i \in DOMAIN calls}
        \cup (IF pc \in {"load", "flush"} THEN {batch} ELSE {})

\* C20: every batch handed to insert_batch is non-empty, has at most
\* batch_size records when batch_size >= 1, and all its records have the
\* columns of COLUMN_MAPPING, so the column list taken from the first record
\* names every value of every record.
C20_BatchShape ==
    \A b \in HandedBatches :
        /\ b # <<>>
        /\ batch_size >= 1 => Len(b) <= batch_size
        /\ \A i \in DOMAIN b : DOMAIN b[i] = DbColumns
        /\ StatementRows(b) = b
C20_Witness ==
    /\ batch_size = 2 /\ pc = "flush"
    /\ Len(calls) = 1 /\ Len(calls[1].batch) = 2
    /\ Len(batch) = 1
    /\ KeyOf(calls[1].batch[1]) # KeyOf(calls[1].batch[2])

(***************************************************************************)
(* Properties of the token check                                           *)
(***************************************************************************)
\* C18: in both services no request to a handler other than health_check
\* (root included) is answered with success unless the token check ran and
\* succeeded first.
C18_TokenBeforeSuccess ==
    (rqPc = "done" /\ rqStatus = 200 /\ rqRoute.handler # "health_check")
        => rqToken = "ok"
\* the same statement for every handler but health_check and root
C18_DataHandlersNeedToken ==
    (rqPc = "done" /\ rqStatus = 200 /\ rqRoute.handler \notin {"health_check", "root"})
        => (rqToken = "ok" /\ rqHeader = <<"Bearer", "good">>)
\* root answers although no token check was run
C18_RootNeverChecksToken ==
    (rqPc = "done" /\ rqRoute.handler = "root") => (rqStatus = 200 /\ rqToken = "none")

(***************************************************************************)
(* Properties of two concurrent runs                                       *)
(***************************************************************************)
BothCommitted == \A r \in Runs : runPc[r] = "committed"
RunKeys(r) == {KeyOf(MapRow(runSource[r][i])) : i \in DOMAIN runSource[r]}
MergedCleanly ==
    /\ OneRowPerKey(sharedTable)
    /\ BagKeys(sharedTable) = BagKeys(sharedTable0) \cup RunKeys(1) \cup RunKeys(2)
    /\ runInserted[1] + runInserted[2] =
           Cardinality(BagKeys(sharedTable) \ BagKeys(sharedTable0))

\* C14: when two runs without --truncate over overlapping data have both
\* committed, the table holds exactly one row per key of the union of its
\* initial keys and the keys of both sources, and the persisted counters of
\* the two runs add up to the number of keys newly added.
C14_ConcurrentRunsMerge == BothCommitted => MergedCleanly
\* the same statement for runs in which no statement failed
C14_WhenNoStatementFailed ==
    (BothCommitted /\ \A r \in Runs : ~runFailed[r]) => MergedCleanly
\* the table never holds two rows with one key
C14_OneRowPerKey == OneRowPerKey(sharedTable)
\* both runs added keys, and run 2 skipped a key of run 1
C14_WitnessShared ==
    /\ BothCommitted /\ \A r \in Runs : ~runFailed[r]
    /\ sharedTable0 = EmptyBag
    /\ runInserted[1] = 2 /\ runInserted[2] = 1 /\ runSkipped[2] = 1
    /\ MergedCleanly
\* the victim of a deadlock commits after it lost the rows of its earlier batches
C14_WitnessDeadlock ==
    /\ BothCommitted
    /\ runFailed[2] /\ ~runFailed[1]
    /\ bothBatchSize = 1
    /\ runInserted[2] = 1
    /\ runInserted[1] + runInserted[2] >
           Cardinality(BagKeys(sharedTable) \ BagKeys(sharedTable0))

(***************************************************************************)
(* The counters and the order of submission                                *)
(***************************************************************************)
\* the records of the batches handed to insert_batch so far, in order
RECURSIVE Submitted(_)
Submitted(n) == IF n = 0 THEN <<>> ELSE Submitted(n - 1) \o calls[n].batch
\* the records read and not yet handed to insert_batch
Unsubmitted == IF Len(Submitted(Len(calls))) = pos THEN <<>> ELSE batch
\* MapRow tabulated over the records a source file can hold
MappedRecord == [row \in {SourceRecord(k) : k \in Keys} |-> MapRow(row)]
\* the first n records of the source, mapped
MappedPrefix(n) == [i \in 1..n |-> MappedRecord[source[i]]]

\* C21: at every point of a run total_rows = inserted_rows + skipped_rows +
\* len(batch); the batches handed to insert_batch followed by the buffer are
\* the records read, each once and in source order; and at a successful end
\* the buffer is empty and total_rows = inserted_rows + skipped_rows.
C21_CountersBalance ==
    /\ total_rows = inserted_rows + skipped_rows + Len(batch)
    /\ Submitted(Len(calls)) \o Unsubmitted = MappedPrefix(pos)
    /\ pc = "committed" =>
          /\ batch = <<>>
          /\ total_rows = inserted_rows + skipped_rows
\* C21, as the code has it: the equation holds with the records not yet
\* handed to insert_batch in the place of len(batch); the last batch stays
\* in `batch` after it was handed over, up to the end of the run.
C21_CountersBalanceUnsubmitted ==
    /\ total_rows = pos
    /\ total_rows = inserted_rows + skipped_rows + Len(Unsubmitted)
    /\ Submitted(Len(calls)) \o Unsubmitted = MappedPrefix(pos)
    /\ Unsubmitted # batch => (pc \notin {"read", "load", "flush"} /\ batch = calls[Len(calls)].batch)
    /\ pc = "committed" =>
          /\ Unsubmitted = <<>>
          /\ total_rows = Len(source)
          /\ total_rows = inserted_rows + skipped_rows
C21_Witness ==
    /\ pc = "committed"
    /\ batch_size = 2 /\ Len(source) = 3
    /\ Len(calls) = 2 /\ Len(batch) = 1
    /\ total_rows = 3 /\ inserted_rows + skipped_rows = 3
    /\ inserted_rows > 0 /\ skipped_rows > 0

\* the page a navigation link leads to
LinkPage(url) == QueryInt(url, "page", DefaultPage)
LastPage == pgOut.pagination.total_pages

C22_WitnessSpark ==
    /\ pgPc = "spark"
    /\ pgTotal = 45 /\ pgLimit = 20 /\ pgPage = 5 /\ LastPage = 3
    /\ LinkPage(Links["previous"]) = 4

(***************************************************************************)
(* Properties of a list request served while import runs commit            *)
(***************************************************************************)
ReadOffset == (rdPage - 1) * rdLimit

\* C23: in every list response numberOfItems <= max(0, totalItems -
\* (page - 1) * limit), also when an import run commits rows between the count
\* query and the item query of the handler: the count and the page of items
\* describe the same state of the store.
C23_ItemsWithinCount ==
    rdPc = "answered" =>
        /\ rdOut.numberOfItems <= Max(0, rdOut.totalItems - ReadOffset)
        /\ rdOut.numberOfItems <= rdOut.totalItems
\* C23, as the code has it: the bound holds when no import committed between
\* the two queries, and in api-mysql when the server runs the session's
\* transaction under REPEATABLE READ; in every response numberOfItems is the
\* length of the page and at most limit.
C23_ItemsWithinCountOfOneView ==
    rdPc = "answered" =>
        /\ rdOut.numberOfItems = Len(rdOut.itemListElement)
        /\ rdOut.numberOfItems <= rdLimit
        /\ rdOut.numberOfItems <= Max(0, rdStore - ReadOffset)
        /\ ( \/ ~rdGrew
             \/ (rdHandler = "get_entreprises_by_activite"
                    /\ rdIsolation = "REPEATABLE READ") ) =>
              /\ rdOut.numberOfItems <= Max(0, rdOut.totalItems - ReadOffset)
              /\ rdOut.numberOfItems <= rdOut.totalItems
\* an import committed between the two queries of a handler of api-mysql
C23_Witness ==
    /\ rdPc = "answered" /\ rdGrew
    /\ rdHandler = "get_entreprises_by_activite"
    /\ rdIsolation = "REPEATABLE READ"
    /\ rdPage = 2 /\ rdLimit = 2
    /\ rdOut.totalItems = 3 /\ rdStore = 5
    /\ rdOut.numberOfItems = 1
\* the same commit under READ COMMITTED: the page holds more than the count admits
C23_WitnessReadCommitted ==
    /\ rdPc = "answered" /\ rdGrew
    /\ rdHandler = "get_entreprises_by_activite"
    /\ rdIsolation = "READ COMMITTED"
    /\ rdPage = 2 /\ rdLimit = 2
    /\ rdOut.totalItems = 3 /\ rdStore = 5
    /\ rdOut.numberOfItems = 2
\* the statement of C23 for get_entreprises_by_activite alone
C23_ActiviteItemsWithinCount ==
    (rdPc = "answered" /\ rdHandler = "get_entreprises_by_activite") =>
        rdOut.numberOfItems <= Max(0, rdOut.totalItems - ReadOffset)

====
